---- MODULE Spec2Model ----
(***************************************************************************)
(* Model of the `mac` crate (src/src/lib.rs): the MacAddress value type,   *)
(* its constructors, its FromStr parser, its Display/Debug formatter and   *)
(* its serde bridge.                                                       *)
(*                                                                         *)
(* A string (&str) is a sequence of one-character strings, a byte slice a  *)
(* sequence of integers 0..255.  Every function of the crate is an         *)
(* operator that computes what the code computes; the state machine is a   *)
(* caller that invokes one function of the crate per step and keeps the    *)
(* call (operation, argument, result) as its state.                        *)
(***************************************************************************)
EXTENDS Integers, Sequences, FiniteSets, TLC

VARIABLES
    given,  \* the input the caller was handed: a Token (None, Str or Bytes)
    op,     \* the function of the crate called by the last step
    arg,    \* the Token that call was given: the input, or a fed-back output
    hr,     \* is_human_readable() of the (de)serializer of the last step
    res,    \* the Result it returned (fallible functions)
    out,    \* the Token it produced (fmt, serialize)
    mac,    \* the address the caller holds: the last one constructed, or None
    how,    \* the function that constructed mac
    feed    \* when arg is a fed-back output: the call and address it came from

vars == <<given, op, arg, hr, res, out, mac, how, feed>>

-----------------------------------------------------------------------------
(* Bounds of the model *)

\* largest number of ':'-separated components of an input string
MaxParts == 8
\* largest length of an input byte slice
MaxSlice == 7

-----------------------------------------------------------------------------
(* Characters and std's integer parsing, as used at lib.rs:197 *)

DecDigits == <<"0","1","2","3","4","5","6","7","8","9">>
LowerLetters == <<"a","b","c","d","e","f","g","h","i","j","k","l","m",
                  "n","o","p","q","r","s","t","u","v","w","x","y","z">>
UpperLetters == <<"A","B","C","D","E","F","G","H","I","J","K","L","M",
                  "N","O","P","Q","R","S","T","U","V","W","X","Y","Z">>

\* position of c in t, 0 when absent
IndexOf(c, t) ==
    IF \E k \in 1..Len(t) : t[k] = c
    THEN CHOOSE k \in 1..Len(t) : t[k] = c
    ELSE 0

\* char::to_digit restricted to lower-case letters: the case-sensitive variant
to_digit_lower_only(c, radix) ==
    LET d == IF IndexOf(c, DecDigits) > 0 THEN IndexOf(c, DecDigits) - 1
             ELSE IF IndexOf(c, LowerLetters) > 0 THEN IndexOf(c, LowerLetters) + 9
             ELSE radix
    IN  IF d < radix THEN d ELSE -1

\* char::to_digit(radix): the digit's value, -1 for None
to_digit(c, radix) ==
    LET d == IF IndexOf(c, DecDigits) > 0 THEN IndexOf(c, DecDigits) - 1
             ELSE IF IndexOf(c, LowerLetters) > 0 THEN IndexOf(c, LowerLetters) + 9
             ELSE IF IndexOf(c, UpperLetters) > 0 THEN IndexOf(c, UpperLetters) + 9
             ELSE radix
    IN  IF d < radix THEN d ELSE -1

\* the digit loop of u8::from_str_radix: checked_mul, then checked_add, in u8
RECURSIVE accumulate(_, _, _)
accumulate(digits, radix, acc) ==
    IF digits = <<>> THEN [ok |-> TRUE, val |-> acc]
    ELSE LET x == to_digit(Head(digits), radix) IN
         IF x < 0 THEN [ok |-> FALSE, val |-> 0]
         ELSE IF acc * radix > 255 THEN [ok |-> FALSE, val |-> 0]
         ELSE IF acc * radix + x > 255 THEN [ok |-> FALSE, val |-> 0]
         ELSE accumulate(Tail(digits), radix, acc * radix + x)

\* u8::from_str_radix(src, radix): an optional '+', then at least one digit
from_str_radix(src, radix) ==
    IF src = <<>> THEN [ok |-> FALSE, val |-> 0]
    ELSE LET digits == IF Head(src) = "+" THEN Tail(src) ELSE src IN
         IF digits = <<>> THEN [ok |-> FALSE, val |-> 0]
         ELSE accumulate(digits, radix, 0)

\* str::split(':'): the components, empty ones kept; never an empty sequence
RECURSIVE split(_)
split(s) ==
    IF \A k \in 1..Len(s) : s[k] # ":" THEN <<s>>
    ELSE LET p == CHOOSE k \in 1..Len(s) :
                      s[k] = ":" /\ \A j \in 1..(k-1) : s[j] # ":"
         IN  <<SubSeq(s, 1, p - 1)>> \o split(SubSeq(s, p + 1, Len(s)))

-----------------------------------------------------------------------------
(* MacAddressErrors and MacAddress *)

InvalidLength(n) == [kind |-> "InvalidLength", len |-> n]
InvalidComponent == [kind |-> "InvalidComponent", len |-> 0]
NoError == [kind |-> "None", len |-> 0]

\* struct MacAddress { bytes: [u8; 6] }; None is the caller holding no address
MacAddress(b) == [bytes |-> b]
None == [bytes |-> <<>>]

Ok(m) == [ok |-> TRUE, val |-> m, err |-> NoError]
Err(e) == [ok |-> FALSE, val |-> None, err |-> e]
NoResult == [ok |-> FALSE, val |-> None, err |-> NoError]

\* impl fmt::Display for MacAddressErrors
error_fmt(e) ==
    IF e.kind = "InvalidLength"
    THEN "Expected 6 components but found " \o ToString(e.len)
    ELSE "Invalid component in a MAC address string"

-----------------------------------------------------------------------------
(* Constructors *)

new == MacAddress(<<0, 0, 0, 0, 0, 0>>)

from_bytes(a, b, c, d, e, f) == MacAddress(<<a, b, c, d, e, f>>)

from_byte_tuple(t) == MacAddress(<<t[1], t[2], t[3], t[4], t[5], t[6]>>)

from_byte_array(bytes) == MacAddress(bytes)

\* impl From<MacByteTuple> / From<[u8; 6]>
from_tuple(target) == from_byte_tuple(target)
from_array(target) == from_byte_array(target)

\* from_byte_slice accepting any slice of at least 6 bytes
from_byte_slice_at_least_six(bytes) ==
    LET len == Len(bytes) IN
    IF len >= 6 THEN Ok(from_array(SubSeq(bytes, 1, 6)))
    ELSE Err(InvalidLength(len))

from_byte_slice(bytes) ==
    LET len == Len(bytes) IN
    IF len = 6 THEN Ok(from_array(SubSeq(bytes, 1, 6)))
    ELSE Err(InvalidLength(len))

try_from(target) == from_byte_slice(target)

-----------------------------------------------------------------------------
(* FromStr *)

\* u8::from_str_radix(split, 10): the parser reading decimal components
parse_component_decimal(part) == from_str_radix(part, 10)

\* lib.rs:197
parse_component(part) == from_str_radix(part, 16)

\* the loop with the component parsed before the count is tested
RECURSIVE from_str_loop_parse_first(_, _, _)
from_str_loop_parse_first(splits, i, parts) ==
    IF splits = <<>>
    THEN IF i = 6 THEN Ok(from_array(parts)) ELSE Err(InvalidLength(i))
    ELSE LET part == Head(splits)
             r == parse_component(part)
         IN  IF ~(r.ok /\ Len(part) # 0) THEN Err(InvalidComponent)
             ELSE IF i = 6 THEN Err(InvalidLength(i + 1))
             ELSE from_str_loop_parse_first(Tail(splits), i + 1,
                                            [parts EXCEPT ![i + 1] = r.val])

\* the loop counting every component before reporting too many
RECURSIVE from_str_loop_count_all(_, _, _)
from_str_loop_count_all(splits, i, parts) ==
    IF splits = <<>>
    THEN IF i = 6 THEN Ok(from_array(parts)) ELSE Err(InvalidLength(i))
    ELSE IF i >= 6 THEN from_str_loop_count_all(Tail(splits), i + 1, parts)
    ELSE LET part == Head(splits)
             r == parse_component(part)
         IN  IF r.ok /\ Len(part) # 0
             THEN from_str_loop_count_all(Tail(splits), i + 1,
                                          [parts EXCEPT ![i + 1] = r.val])
             ELSE Err(InvalidComponent)

\* `for split in splits { ... }` and the test after it: splits are the
\* components not yet visited, i the counter, parts the array (parts[i] of
\* the code is parts[i + 1] here)
RECURSIVE from_str_loop(_, _, _)
from_str_loop(splits, i, parts) ==
    IF splits = <<>>
    THEN IF i = 6 THEN Ok(from_array(parts)) ELSE Err(InvalidLength(i))
    ELSE IF i = 6 THEN Err(InvalidLength(i + 1))
    ELSE LET part == Head(splits)
             r == parse_component(part)
         IN  IF r.ok /\ Len(part) # 0
             THEN from_str_loop(Tail(splits), i + 1,
                                [parts EXCEPT ![i + 1] = r.val])
             ELSE Err(InvalidComponent)

from_str(s) == from_str_loop(split(s), 0, <<0, 0, 0, 0, 0, 0>>)

-----------------------------------------------------------------------------
(* Display and Debug *)

HexLower == <<"0","1","2","3","4","5","6","7","8","9","a","b","c","d","e","f">>
HexUpper == <<"0","1","2","3","4","5","6","7","8","9","A","B","C","D","E","F">>

\* the digits of n in base 16, most significant first, from `alphabet`
RECURSIVE hex_digits(_, _)
hex_digits(n, alphabet) ==
    IF n < 16 THEN <<alphabet[n + 1]>>
    ELSE hex_digits(n \div 16, alphabet) \o <<alphabet[(n % 16) + 1]>>

\* zero padding to a minimum width
RECURSIVE pad(_, _)
pad(t, width) == IF Len(t) >= width THEN t ELSE pad(<<"0">> \o t, width)

\* "{:02x}"
fmt_byte(b) == pad(hex_digits(b, HexLower), 2)

\* impl fmt::Display for MacAddress
fmt(m) ==
    fmt_byte(m.bytes[1]) \o <<":">> \o fmt_byte(m.bytes[2]) \o <<":">> \o
    fmt_byte(m.bytes[3]) \o <<":">> \o fmt_byte(m.bytes[4]) \o <<":">> \o
    fmt_byte(m.bytes[5]) \o <<":">> \o fmt_byte(m.bytes[6])

\* a Debug of its own, in upper case ("{:02X}")
debug_fmt_upper(m) ==
    LET g(b) == pad(hex_digits(b, HexUpper), 2) IN
    g(m.bytes[1]) \o <<":">> \o g(m.bytes[2]) \o <<":">> \o
    g(m.bytes[3]) \o <<":">> \o g(m.bytes[4]) \o <<":">> \o
    g(m.bytes[5]) \o <<":">> \o g(m.bytes[6])

\* impl fmt::Debug for MacAddress
debug_fmt(m) == fmt(m)

-----------------------------------------------------------------------------
(* Tokens: what a serializer is given and what a deserializer presents *)

Str(s) == [tag |-> "Str", str |-> s, bytes |-> <<>>]
Bytes(b) == [tag |-> "Bytes", str |-> <<>>, bytes |-> b]
NoToken == [tag |-> "None", str |-> <<>>, bytes |-> <<>>]

-----------------------------------------------------------------------------
(* Serialize and Deserialize *)

\* serialize with the mode ignored: always the string form
serialize_always_str(m, is_human_readable) == Str(fmt(m))

\* impl Serialize for MacAddress: the token handed to the serializer
serialize(m, is_human_readable) ==
    IF is_human_readable THEN Str(fmt(m)) ELSE Bytes(m.bytes)

\* MacAddressVisitor::expecting
expecting ==
    "either a string representation of a MAC address or 6-element byte array"

\* de::Error::custom(msg) and de::Error::invalid_length(len, &exp)
custom(msg) == [kind |-> "custom", len |-> 0, msg |-> msg]
invalid_length(len, exp) == [kind |-> "invalid_length", len |-> len, msg |-> exp]

\* "{:?}" of MacAddressErrors (derive(Debug))
error_debug(e) ==
    IF e.kind = "InvalidLength"
    THEN "InvalidLength(" \o ToString(e.len) \o ")"
    ELSE "InvalidComponent"

\* visit_str rendering the error with "{:?}"
visit_str_debug_message(value) ==
    LET r == from_str(value) IN
    IF r.ok THEN Ok(r.val) ELSE Err(custom(error_debug(r.err)))

\* MacAddressVisitor::visit_str
visit_str(value) ==
    LET r == from_str(value) IN
    IF r.ok THEN Ok(r.val) ELSE Err(custom(error_fmt(r.err)))

\* MacAddressVisitor::visit_bytes
visit_bytes(v) ==
    LET r == from_byte_slice(v) IN
    IF r.ok THEN Ok(r.val) ELSE Err(invalid_length(Len(v), expecting))

\* Deserializer::deserialize_str / deserialize_bytes of a self-describing
\* source: the hint is only a hint, the visitor is handed what the source holds
deserialize_str(token) ==
    IF token.tag = "Str" THEN visit_str(token.str) ELSE visit_bytes(token.bytes)
deserialize_bytes(token) ==
    IF token.tag = "Str" THEN visit_str(token.str) ELSE visit_bytes(token.bytes)

\* impl Deserialize for MacAddress
deserialize(is_human_readable, token) ==
    IF is_human_readable THEN deserialize_str(token) ELSE deserialize_bytes(token)

-----------------------------------------------------------------------------
(* The inputs a caller may be handed *)

\* joins components with ':'
RECURSIVE join(_)
join(cs) ==
    IF Len(cs) = 1 THEN cs[1] ELSE cs[1] \o <<":">> \o join(Tail(cs))

\* "12:34:56:78:90:ab" of tests::mac_addr_from_str, repeated past six
BasePattern ==
    << <<"1","2">>, <<"3","4">>, <<"5","6">>, <<"7","8">>, <<"9","0">>, <<"a","b">> >>
base_component(i) == BasePattern[((i - 1) % 6) + 1]

\* components put in place of up to two components of the base string
Variants ==
    { <<>>, <<"0">>, <<"F">>, <<"f","F">>, <<"g">>, <<"x","x">>,
      <<"+","1">>, <<"+">>, <<"-","1">>, <<"1","0","0">>, <<"0","f","f">>,
      <<"0","x","1">>, <<" ","1">> }

Inputs ==
    UNION { { join([i \in 1..k |-> IF i = p2 THEN c2
                                   ELSE IF i = p1 THEN c1
                                   ELSE base_component(i)]) :
                p1 \in 0..k, p2 \in 0..k, c1 \in Variants, c2 \in Variants } :
            k \in 1..MaxParts }

BytePool == {9, 171, 255}
Slices == UNION { [1..n -> BytePool] : n \in 0..MaxSlice }

-----------------------------------------------------------------------------
(* The caller *)

NoFeed == [from |-> "none", mac |-> None, hr |-> FALSE]

Init ==
    /\ given \in {NoToken} \cup {Str(s) : s \in Inputs} \cup {Bytes(b) : b \in Slices}
    /\ op = "init"
    /\ arg = NoToken
    /\ hr = FALSE
    /\ res = NoResult
    /\ out = NoToken
    /\ mac = None
    /\ how = "none"
    /\ feed = NoFeed

\* an infallible constructor returned m
Constructed(name, a, m) ==
    /\ op' = name
    /\ arg' = a
    /\ hr' = FALSE
    /\ res' = NoResult
    /\ out' = NoToken
    /\ mac' = m
    /\ how' = name
    /\ feed' = NoFeed
    /\ UNCHANGED given

\* a fallible constructor returned r for the argument a
Returned(name, a, h, r, f) ==
    /\ op' = name
    /\ arg' = a
    /\ hr' = h
    /\ res' = r
    /\ out' = NoToken
    /\ mac' = r.val
    /\ how' = IF r.ok THEN name ELSE "none"
    /\ feed' = f
    /\ UNCHANGED given

\* a function of the held address produced the token t
Produced(name, h, t) ==
    /\ mac # None
    /\ op' = name
    /\ arg' = NoToken
    /\ hr' = h
    /\ res' = NoResult
    /\ out' = t
    /\ feed' = NoFeed
    /\ UNCHANGED <<given, mac, how>>

\* the feed of a call whose argument is the output of the last step
FedBack == [from |-> op, mac |-> mac, hr |-> hr]

New ==
    /\ given = NoToken
    /\ op = "init"
    /\ Constructed("new", NoToken, new)

SixBytes == given.tag = "Bytes" /\ Len(given.bytes) = 6 /\ op = "init"

FromBytes ==
    /\ SixBytes
    /\ LET b == given.bytes IN
       Constructed("from_bytes", given, from_bytes(b[1], b[2], b[3], b[4], b[5], b[6]))

FromByteTuple ==
    /\ SixBytes
    /\ Constructed("from_byte_tuple", given, from_byte_tuple(given.bytes))

FromByteArray ==
    /\ SixBytes
    /\ Constructed("from_byte_array", given, from_byte_array(given.bytes))

FromTuple ==
    /\ SixBytes
    /\ Constructed("from_tuple", given, from_tuple(given.bytes))

FromArray ==
    /\ SixBytes
    /\ Constructed("from_array", given, from_array(given.bytes))

FromByteSlice ==
    /\ given.tag = "Bytes"
    /\ op = "init"
    /\ Returned("from_byte_slice", given, FALSE, from_byte_slice(given.bytes), NoFeed)

TryFrom ==
    /\ given.tag = "Bytes"
    /\ op = "init"
    /\ Returned("try_from", given, FALSE, try_from(given.bytes), NoFeed)

\* "...".parse() on the input string
FromStr ==
    /\ given.tag = "Str"
    /\ op = "init"
    /\ Returned("from_str", given, FALSE, from_str(given.str), NoFeed)

\* format!("{}", mac).parse(): the string just produced is parsed
FromStrOfOutput ==
    /\ out.tag = "Str"
    /\ Returned("from_str", out, FALSE, from_str(out.str), FedBack)

Display == Produced("fmt", FALSE, Str(fmt(mac)))

Debug == Produced("debug_fmt", FALSE, Str(debug_fmt(mac)))

Serialize == \E h \in BOOLEAN : Produced("serialize", h, serialize(mac, h))

\* the source presents the input token
Deserialize ==
    /\ given # NoToken
    /\ op = "init"
    /\ \E h \in BOOLEAN :
          Returned("deserialize", given, h, deserialize(h, given), NoFeed)

\* the source presents the token the last serialize emitted
DeserializeOfOutput ==
    /\ op = "serialize"
    /\ \E h \in BOOLEAN :
          Returned("deserialize", out, h, deserialize(h, out), FedBack)

Next ==
    \/ New
    \/ FromBytes
    \/ FromByteTuple
    \/ FromByteArray
    \/ FromTuple
    \/ FromArray
    \/ FromByteSlice
    \/ TryFrom
    \/ FromStr
    \/ FromStrOfOutput
    \/ Display
    \/ Debug
    \/ Serialize
    \/ Deserialize
    \/ DeserializeOfOutput

Spec == Init /\ [][Next]_vars

-----------------------------------------------------------------------------
(* The textual wire format, stated apart from the parser *)

HexDigitChars ==
    {"0","1","2","3","4","5","6","7","8","9",
     "a","b","c","d","e","f","A","B","C","D","E","F"}
LowerHexChars == <<"0","1","2","3","4","5","6","7","8","9","a","b","c","d","e","f">>
UpperHexChars == <<"0","1","2","3","4","5","6","7","8","9","A","B","C","D","E","F">>

\* the value of a hexadecimal digit character
DigitValue(ch) ==
    CHOOSE v \in 0..15 : LowerHexChars[v + 1] = ch \/ UpperHexChars[v + 1] = ch

\* the number a string of hexadecimal digits denotes
RECURSIVE HexNumber(_)
HexNumber(c) ==
    IF c = <<>> THEN 0
    ELSE 16 * HexNumber(SubSeq(c, 1, Len(c) - 1)) + DigitValue(c[Len(c)])

\* [0-9a-fA-F]{1,2}
WireComponent(c) ==
    /\ Len(c) \in {1, 2}
    /\ \A k \in 1..Len(c) : c[k] \in HexDigitChars

\* empty, or holding a character that is no hex digit, or above 255
BadComponent(c) ==
    \/ c = <<>>
    \/ \E k \in 1..Len(c) : c[k] \notin HexDigitChars
    \/ HexNumber(c) > 255

Min(a, b) == IF a < b THEN a ELSE b

\* the components of the string the last call was given
ArgParts == split(arg.str)
\* the components from_str can reach before it reports too many
FirstSix == 1..Min(Len(ArgParts), 6)

Upper(s) ==
    [k \in 1..Len(s) |-> IF IndexOf(s[k], LowerLetters) > 0
                         THEN UpperLetters[IndexOf(s[k], LowerLetters)] ELSE s[k]]
Lower(s) ==
    [k \in 1..Len(s) |-> IF IndexOf(s[k], UpperLetters) > 0
                         THEN LowerLetters[IndexOf(s[k], UpperLetters)] ELSE s[k]]

\* t is xx:xx:xx:xx:xx:xx for the bytes b: 17 characters, two lower-case hex
\* digits per byte in byte order, a ':' between groups only
Canonical(t, b) ==
    /\ Len(t) = 17
    /\ \A i \in 0..5 :
          /\ t[3 * i + 1] = LowerHexChars[(b[i + 1] \div 16) + 1]
          /\ t[3 * i + 2] = LowerHexChars[(b[i + 1] % 16) + 1]
          /\ i < 5 => t[3 * i + 3] = ":"

-----------------------------------------------------------------------------
(* Claims *)

\* C1: parsing the string Display produced for an address m succeeds and
\* returns an address equal to m.
C1_RoundTrip ==
    (op = "from_str" /\ feed.from = "fmt") => res = Ok(feed.mac)

\* a Display output with a zero-padded group and a letter group was parsed back
C1_Witness ==
    /\ op = "from_str"
    /\ feed.from = "fmt"
    /\ feed.mac = MacAddress(<<9, 171, 255, 9, 171, 255>>)
    /\ res = Ok(feed.mac)

\* C2: from_str succeeds on every string of exactly six components of one or
\* two hex digits in either case, the address holds at position i the value
\* of component i, and the upper-case and lower-case spellings parse alike.
C2_ParsesWireFormat ==
    (op = "from_str" /\ Len(ArgParts) = 6
                     /\ \A i \in 1..6 : WireComponent(ArgParts[i]))
    => /\ res = Ok(MacAddress([i \in 1..6 |-> HexNumber(ArgParts[i])]))
       /\ from_str(Upper(arg.str)) = res
       /\ from_str(Lower(arg.str)) = res

\* a mixed-case string with a one-digit component was parsed
C2_Witness ==
    /\ op = "from_str"
    /\ feed = NoFeed
    /\ Upper(arg.str) # arg.str
    /\ Lower(arg.str) # arg.str
    /\ res = Ok(MacAddress(<<18, 15, 86, 120, 144, 255>>))

\* C3: whenever from_str succeeds the input is exactly six components of one
\* or two hex digits each and nothing else, and a component among the first
\* six that is empty, holds a non-hex-digit character or exceeds 255 yields
\* InvalidComponent.
C3_AcceptsOnlyWireFormat ==
    op = "from_str" =>
       /\ res.ok => /\ Len(ArgParts) = 6
                    /\ \A i \in 1..6 : WireComponent(ArgParts[i])
       /\ (\E i \in FirstSix : BadComponent(ArgParts[i]))
             => res = Err(InvalidComponent)

\* C4: when the first min(k, 6) of the k components are valid hex bytes and
\* k # 6, the result is InvalidLength(min(k, 7)), whatever the 7th and later
\* components are.
C4_InvalidLength ==
    (op = "from_str" /\ Len(ArgParts) # 6
                     /\ \A i \in FirstSix : WireComponent(ArgParts[i]))
    => res = Err(InvalidLength(Min(Len(ArgParts), 7)))

\* eight components, the 7th not a hex byte: InvalidLength(7)
C4_Witness ==
    /\ op = "from_str"
    /\ Len(ArgParts) = 8
    /\ \A i \in 1..6 : WireComponent(ArgParts[i])
    /\ ~WireComponent(ArgParts[7])
    /\ res = Err(InvalidLength(7))

\* C5 as stated: every input with an empty component fails as
\* InvalidComponent, never InvalidLength, the 7-part trailing-colon string
\* included.
C5_EmptyIsInvalidComponent ==
    (op = "from_str" /\ \E i \in 1..Len(ArgParts) : ArgParts[i] = <<>>)
    => res = Err(InvalidComponent)

\* C5 amended: an empty component among the first six yields
\* InvalidComponent; six components of one or two hex digits followed by an
\* empty 7th (a trailing colon) yield InvalidLength(7).
C5_EmptyAmongFirstSix ==
    op = "from_str" =>
       /\ (\E i \in FirstSix : ArgParts[i] = <<>>) => res = Err(InvalidComponent)
       /\ (/\ Len(ArgParts) >= 7
           /\ ArgParts[7] = <<>>
           /\ \A i \in 1..6 : WireComponent(ArgParts[i]))
          => res = Err(InvalidLength(7))

\* six valid components and a trailing colon were parsed
C5_Witness ==
    /\ op = "from_str"
    /\ Len(ArgParts) = 7
    /\ ArgParts[7] = <<>>
    /\ res = Err(InvalidLength(7))

\* C6: from_byte_slice and TryFrom<&[u8]> succeed iff the slice has exactly 6
\* bytes, the address then holds those bytes in order; any other length n,
\* 0 included, gives InvalidLength(n).
C6_SliceLength ==
    op \in {"from_byte_slice", "try_from"} =>
       /\ res.ok <=> Len(arg.bytes) = 6
       /\ res.ok => res.val.bytes = arg.bytes
       /\ ~res.ok => res.err = InvalidLength(Len(arg.bytes))

\* a 7-byte slice was refused by try_from
C6_Witness ==
    /\ op = "try_from"
    /\ Len(arg.bytes) = 7
    /\ res = Err(InvalidLength(7))

\* C7: for every address, however constructed, Display and Debug produce the
\* same 17-character string: six zero-padded groups of two lower-case hex
\* digits in byte order, a single ':' between groups.
C7_Format ==
    op \in {"fmt", "debug_fmt"} =>
       (out.tag = "Str" /\ Canonical(out.str, mac.bytes))

\* Debug of a parsed address with a byte below 16 and a letter digit
C7_Witness ==
    /\ op = "debug_fmt"
    /\ how = "from_str"
    /\ mac.bytes[2] = 15
    /\ SubSeq(out.str, 4, 5) = <<"0", "f">>

\* C8: serialize emits the 17-character string when the serializer is
\* human-readable and the raw 6 bytes otherwise, and deserializing the
\* emitted value in the same mode returns the address.
C8_SerdeRoundTrip ==
    /\ op = "serialize" =>
          IF hr THEN out.tag = "Str" /\ Canonical(out.str, mac.bytes)
          ELSE out = Bytes(mac.bytes)
    /\ (op = "deserialize" /\ feed.from = "serialize" /\ feed.hr = hr)
          => res = Ok(feed.mac)

\* the 6 raw bytes emitted in binary mode were deserialized in binary mode
C8_Witness ==
    /\ op = "deserialize"
    /\ feed.from = "serialize"
    /\ ~feed.hr
    /\ ~hr
    /\ arg.tag = "Bytes"
    /\ res = Ok(feed.mac)

\* C9: whatever the human-readable hint, a presented string is handled as
\* from_str (an error becomes a custom error with its Display message) and a
\* presented byte sequence as from_byte_slice (a length other than 6 becomes
\* an invalid-length error reporting that length).
C9_HintIndependent ==
    op = "deserialize" =>
       IF arg.tag = "Str"
       THEN LET r == from_str(arg.str) IN
            IF r.ok THEN res = Ok(r.val)
            ELSE IF r.err.kind = "InvalidComponent"
            THEN res = Err(custom("Invalid component in a MAC address string"))
            ELSE res = Err(custom("Expected 6 components but found "
                                   \o ToString(r.err.len)))
       ELSE IF Len(arg.bytes) = 6 THEN res = Ok(MacAddress(arg.bytes))
            ELSE res = Err(invalid_length(Len(arg.bytes), expecting))

\* a string with too few components, presented under the binary hint
C9_Witness ==
    /\ op = "deserialize"
    /\ ~hr
    /\ arg.tag = "Str"
    /\ res = Err(custom("Expected 6 components but found 4"))

\* C10: an invalid component among the first six gives InvalidComponent
\* whatever the number of components, and InvalidLength is returned only when
\* each of the first min(k, 6) components is valid.
C10_ComponentBeforeCount ==
    op = "from_str" =>
       /\ (\E i \in FirstSix : BadComponent(ArgParts[i]))
             => res = Err(InvalidComponent)
       /\ (~res.ok /\ res.err.kind = "InvalidLength")
             => \A i \in FirstSix : ~BadComponent(ArgParts[i])

====
